---- MODULE Spec2Model ----
(***************************************************************************)
(* Session-backed JWT authentication of the ZeroTrust IAM Analyzer backend *)
(* (backend/app): credential check and lockout, token issue and rotation,  *)
(* session rows, the Redis session cache and the per-request dependency.   *)
(***************************************************************************)
EXTENDS Integers, Naturals, Sequences, FiniteSets, TLC

(***************************************************************************)
(* Bounds of the model.                                                    *)
(***************************************************************************)
MaxTime == 3
MaxSessions == 2
MaxJti == 6
MaxStoreJti == 3
MaxResets == 2
MaxResetTime == 5

(***************************************************************************)
(* Program constants, in clock ticks of 15 minutes.                        *)
(***************************************************************************)
\* variant: the lock one failure late
LOCK_THRESHOLD_late == 5 + 1

LOCK_THRESHOLD == 5
ACCESS_TOKEN_EXPIRE == 2
REFRESH_TOKEN_EXPIRE == 3
SESSION_CACHE_TTL == 1
RESET_TOKEN_EXPIRE == 4

UserIds == {"alice", "bob"}
Passwords == {"Secur3Pass!", "wrong"}
Identifiers == {"alice@ex.com", "ALICE@EX.COM", "alice", "bob", "nobody"}
Requests == {1, 2}
ResetEmails == {"alice@ex.com", "ALICE@EX.COM", "bob@ex.com", "nobody@ex.com"}
NewPasswords == {"N3wPass!"}
RoleNames == {"User", "Admin", "Analyst"}
AllowedRolesInputs == {<<>>, <<"Admin">>, <<"User">>, <<"Admin", "Analyst">>, <<"Auditor">>}

\* values of the text column Role.permissions: NULL, text that is not JSON,
\* JSON that is not an array, and JSON arrays of permission strings
NullText == [json |-> "null", items |-> <<>>]
PermissionTexts ==
    {NullText,
     [json |-> "invalid", items |-> <<>>],
     [json |-> "object", items |-> <<"read">>],
     [json |-> "list", items |-> <<"read">>],
     [json |-> "list", items |-> <<"write", "delete">>]}
RequiredPermissionsInputs == {<<>>, <<"read">>, <<"write">>, <<"audit", "delete">>}

NoUser == "none"
NoTime == -1

VARIABLES
    users,          \* user rows of the database, by user id
    sessions,       \* session rows of the database, in insertion order
    cache,          \* Redis: jti -> cached session snapshot
    redis_up,       \* whether the Redis server answers
    now,            \* datetime.utcnow(), in ticks
    next_jti,       \* the next value uuid.uuid4() hands out
    issued,         \* tokens handed to clients so far
    inflight,       \* per request: the handler state between its reads and its commit
    resp,           \* the response of the last completed call
    consecutive_failures,  \* history: failed password checks per user since the last success or unlock
    used_refresh,   \* history: refresh tokens a refresh has succeeded with
    logged_out,     \* history: tokens of sessions whose logout has committed
    redis_client,   \* whether the module global _redis_client of core/redis.py is set
    successful_logins,  \* history: logins answered 200 with a token pair
    reset_log,      \* history: the reset tokens logged, and whether a confirm succeeded with them
    roles,          \* role rows of the database, by their unique name
    user_roles      \* the user_roles association table: per user the names of the attached roles

vars == <<users, sessions, cache, redis_up, now, next_jti, issued, inflight, resp,
          consecutive_failures, used_refresh, logged_out, redis_client, successful_logins,
          reset_log, roles, user_roles>>

(***************************************************************************)
(* Credential store: models/user.py, core/security.py                      *)
(***************************************************************************)
lower(s) == IF s = "ALICE@EX.COM" THEN "alice@ex.com" ELSE s

get_password_hash(password) == <<"bcrypt", password>>

verify_password(plain_password, hashed_password) ==
    hashed_password = get_password_hash(plain_password)

\* the values of User.status
UserStatuses == {"active", "inactive", "suspended", "pending_verification", "locked"}

is_account_locked(user) ==
    user.status = "locked" \/ user.failed_login_attempts >= LOCK_THRESHOLD

lock_account(user) == [user EXCEPT !.status = "locked"]

unlock_account(user) ==
    [user EXCEPT !.status = "active", !.failed_login_attempts = 0]

\* variant: a successful login that forgets to reset the counter
record_login_attempt_noreset(user, success, t) ==
    IF success
    THEN LET u1 == [user EXCEPT !.last_login_at = t]
         IN  IF u1.status = "pending_verification"
             THEN [u1 EXCEPT !.status = "active", !.is_verified = TRUE]
             ELSE u1
    ELSE LET u1 == [user EXCEPT !.failed_login_attempts = @ + 1]
         IN  IF u1.failed_login_attempts >= LOCK_THRESHOLD
             THEN lock_account(u1)
             ELSE u1

record_login_attempt(user, success, t) ==
    IF success
    THEN LET u1 == [user EXCEPT !.last_login_at = t, !.failed_login_attempts = 0]
         IN  IF u1.status = "pending_verification"
             THEN [u1 EXCEPT !.status = "active", !.is_verified = TRUE]
             ELSE u1
    ELSE LET u1 == [user EXCEPT !.failed_login_attempts = @ + 1]
         IN  IF u1.failed_login_attempts >= LOCK_THRESHOLD
             THEN lock_account(u1)
             ELSE u1

get_user_by_email(us, email) == {u \in DOMAIN us : us[u].email = lower(email)}

get_user_by_username(us, username) == {u \in DOMAIN us : us[u].username = lower(username)}

\* the lookup of authenticate_user: email first, then username
find_user(us, username_or_email) ==
    LET by_email == get_user_by_email(us, username_or_email)
    IN  IF by_email # {} THEN by_email ELSE get_user_by_username(us, username_or_email)

\* the HTTPExceptions authenticate_user raises
\* variant: an unknown identifier answered as such
UserNotFoundError_telling == [status |-> 404, detail |-> "User not found"]

UserNotFoundError == [status |-> 401, detail |-> "Invalid credentials"]
PasswordMismatchError == [status |-> 401, detail |-> "Invalid credentials"]
AccountLockedError ==
    [status |-> 403, detail |-> "Account locked due to too many failed attempts. Please contact support."]
AccountInactiveError == [status |-> 403, detail |-> "Account is inactive. Please contact support."]

\* variant: the password is verified before the lockout and active checks
authenticate_user_password_first(us, username_or_email, password, t) ==
    LET found == find_user(us, username_or_email)
    IN  IF found = {}
        THEN [branch |-> "not_found", status |-> UserNotFoundError.status,
              detail |-> UserNotFoundError.detail, user |-> NoUser, users |-> us]
        ELSE LET u == CHOOSE x \in found : TRUE
             IN  IF ~verify_password(password, us[u].password_hash)
                 THEN [branch |-> "mismatch", status |-> PasswordMismatchError.status,
                       detail |-> PasswordMismatchError.detail, user |-> NoUser,
                       users |-> [us EXCEPT ![u] = record_login_attempt(us[u], FALSE, t)]]
                 ELSE IF is_account_locked(us[u])
                 THEN [branch |-> "locked", status |-> AccountLockedError.status,
                       detail |-> AccountLockedError.detail, user |-> NoUser, users |-> us]
                 ELSE IF ~us[u].is_active
                 THEN [branch |-> "inactive", status |-> AccountInactiveError.status,
                       detail |-> AccountInactiveError.detail, user |-> NoUser, users |-> us]
                 ELSE [branch |-> "ok", status |-> 200, detail |-> "ok", user |-> u,
                       users |-> [us EXCEPT ![u] = record_login_attempt(us[u], TRUE, t)]]

\* AuthService.authenticate_user: the outcome and the user table it commits
authenticate_user(us, username_or_email, password, t) ==
    LET found == find_user(us, username_or_email)
    IN  IF found = {}
        THEN [branch |-> "not_found", status |-> UserNotFoundError.status,
              detail |-> UserNotFoundError.detail, user |-> NoUser, users |-> us]
        ELSE LET u == CHOOSE x \in found : TRUE
             IN  IF is_account_locked(us[u])
                 THEN [branch |-> "locked", status |-> AccountLockedError.status,
                       detail |-> AccountLockedError.detail, user |-> NoUser, users |-> us]
                 ELSE IF ~us[u].is_active
                 THEN [branch |-> "inactive", status |-> AccountInactiveError.status,
                       detail |-> AccountInactiveError.detail, user |-> NoUser, users |-> us]
                 ELSE IF ~verify_password(password, us[u].password_hash)
                 THEN [branch |-> "mismatch", status |-> PasswordMismatchError.status,
                       detail |-> PasswordMismatchError.detail, user |-> NoUser,
                       users |-> [us EXCEPT ![u] = record_login_attempt(us[u], FALSE, t)]]
                 ELSE [branch |-> "ok", status |-> 200, detail |-> "ok", user |-> u,
                       users |-> [us EXCEPT ![u] = record_login_attempt(us[u], TRUE, t)]]

\* user.roles: the Role rows attached to user u through user_roles, read from
\* the store whenever the relationship is iterated
user_roles_of(rs, ur, u) == {rs[name] : name \in ur[u]}

\* the User object a handler holds: its row and its roles relationship
orm_user(us, rs, ur, u) == [roles |-> user_roles_of(rs, ur, u)] @@ us[u]

\* [role.name for role in user.roles]
token_role_names(rs, ur, u) == {role.name : role \in user_roles_of(rs, ur, u)}

(***************************************************************************)
(* Token codec: jose.jwt.encode / jwt.decode as used by api/v1/auth.py     *)
(***************************************************************************)
NoToken ==
    [sub |-> NoUser, roles |-> {}, jti |-> 0, type |-> "none", exp |-> 0, sig |-> FALSE]
ForgedToken ==
    [sub |-> "alice", roles |-> {"Admin"}, jti |-> 1, type |-> "access", exp |-> MaxTime + 10,
     sig |-> FALSE]

\* the access token carries the names of the roles attached to the user when
\* it is issued; the refresh token carries no roles
access_token_payload(uid, role_names, jti, exp_time) ==
    [sub |-> uid, roles |-> role_names, jti |-> jti, type |-> "access", exp |-> exp_time,
     sig |-> TRUE]

refresh_token_payload(uid, jti, exp_time) ==
    [sub |-> uid, roles |-> {}, jti |-> jti, type |-> "refresh", exp |-> exp_time, sig |-> TRUE]

\* jwt.decode raises JWTError on a bad signature or when exp has passed
jwt_decode_ok(token, t) == token.sig /\ ~(token.exp < t)

(***************************************************************************)
(* Session cache: services/cache_service.py                                *)
(***************************************************************************)
EmptyCache == [j \in {} |-> 0]

\* datetime.isoformat(): the timestamp as text, and the reading of that text
isoformat(t) == [iso |-> t]
fromisoformat(text) == text.iso
NoSnapshot == [user_id |-> NoUser, email |-> "none", roles |-> {}, is_revoked |-> FALSE,
               expires_at |-> isoformat(NoTime), session_id |-> 0, ttl_until |-> NoTime]

\* init_redis assigns the global before its ping, so the global is set from
\* the first call on; it returns the client only when the ping succeeds
init_redis(up) == [client |-> TRUE, returned |-> up]

\* get_redis_client: whether it returns a client (the global once it is set,
\* else what init_redis returns), and the global afterwards
get_redis_client(client, up) ==
    IF client THEN [client |-> TRUE, returned |-> TRUE] ELSE init_redis(up)

\* variant: every snapshot is written as not revoked
cache_session_as_valid(c, client, up, session, user, t) ==
    IF ~get_redis_client(client, up).returned
    THEN [result |-> "False", cache |-> c]
    ELSE IF ~up
    THEN [result |-> "AttributeError", cache |-> c]
    ELSE [result |-> "True",
          cache |-> (session.token_jti :>
                        [user_id |-> session.user_id, email |-> user.email,
                         roles |-> {role.name : role \in {x \in user.roles : x.is_active}},
                         is_revoked |-> FALSE,
                         expires_at |-> isoformat(session.expires_at),
                         session_id |-> session.id, ttl_until |-> t + SESSION_CACHE_TTL]) @@ c]

\* cache_session: what it returns or raises, and the cache afterwards.  With
\* no client it returns False.  With a client and Redis unreachable setex
\* raises, and matching the exception against `json.JSONEncodeError`, a name
\* the json module does not have, raises AttributeError out of the function.
cache_session(c, client, up, session, user, t) ==
    IF ~get_redis_client(client, up).returned
    THEN [result |-> "False", cache |-> c]
    ELSE IF ~up
    THEN [result |-> "AttributeError", cache |-> c]
    ELSE [result |-> "True",
          cache |-> (session.token_jti :>
                        [user_id |-> session.user_id, email |-> user.email,
                         roles |-> {role.name : role \in {x \in user.roles : x.is_active}},
                         is_revoked |-> session.is_revoked,
                         expires_at |-> isoformat(session.expires_at),
                         session_id |-> session.id, ttl_until |-> t + SESSION_CACHE_TTL]) @@ c]

get_cached_session(c, up, token_jti) ==
    IF ~up THEN NoSnapshot
    ELSE IF token_jti \in DOMAIN c THEN c[token_jti]
    ELSE NoSnapshot

\* variant: deleting a key that is not there is reported as a failure
invalidate_session_must_exist(c, client, up, token_jti) ==
    IF ~get_redis_client(client, up).returned \/ ~up \/ token_jti \notin DOMAIN c
    THEN [result |-> FALSE, cache |-> c]
    ELSE [result |-> TRUE, cache |-> [j \in (DOMAIN c) \ {token_jti} |-> c[j]]]

\* invalidate_session: False with no client or when delete raises, else True
\* whatever delete counted; and the cache afterwards
invalidate_session(c, client, up, token_jti) ==
    IF ~get_redis_client(client, up).returned \/ ~up
    THEN [result |-> FALSE, cache |-> c]
    ELSE [result |-> TRUE, cache |-> [j \in (DOMAIN c) \ {token_jti} |-> c[j]]]

\* Redis drops an entry when its TTL has run out
expire_keys(c, t) == [j \in {k \in DOMAIN c : c[k].ttl_until > t} |-> c[j]]

(***************************************************************************)
(* Session store: models/session.py and the queries of the handlers        *)
(***************************************************************************)
by_token_jti(sess, jti) == {i \in DOMAIN sess : sess[i].token_jti = jti}

by_refresh_token_jti(sess, jti) == {i \in DOMAIN sess : sess[i].refresh_token_jti = jti}

revoke(session, t) == [session EXCEPT !.is_revoked = TRUE, !.revoked_at = t]

is_expired(session, t) == t > session.expires_at

is_valid(session, t) == ~session.is_revoked /\ ~is_expired(session, t)

\* AuthService.create_session: the row it commits
new_session(sess, uid, access_token_jti, refresh_token_jti, expires_at, t) ==
    [id |-> Len(sess) + 1, user_id |-> uid, token_jti |-> access_token_jti,
     refresh_token_jti |-> refresh_token_jti, expires_at |-> expires_at,
     is_revoked |-> FALSE, revoked_at |-> NoTime, last_activity_at |-> t]

\* variant: an INSERT with no unique index on the jti columns
insert_session_unchecked(sess, row) == [ok |-> TRUE, sessions |-> Append(sess, row)]

\* the INSERT of create_session's db.commit() under the unique indexes of
\* token_jti and refresh_token_jti: IntegrityError and no row on a duplicate
insert_session(sess, row) ==
    IF \/ by_token_jti(sess, row.token_jti) # {}
       \/ by_refresh_token_jti(sess, row.refresh_token_jti) # {}
    THEN [ok |-> FALSE, sessions |-> sess]
    ELSE [ok |-> TRUE, sessions |-> Append(sess, row)]

(***************************************************************************)
(* Per-request authentication: core/dependencies.py                        *)
(***************************************************************************)
Rejection(detail) == [status |-> 401, detail |-> detail, user |-> NoUser, sid |-> 0]
credentials_exception == Rejection("Could not validate credentials")

\* variant: the cache consulted first, its snapshot trusted on a hit
get_current_user_cache_first(token, sess, us, c, up, t) ==
    IF ~jwt_decode_ok(token, t) THEN credentials_exception
    ELSE IF token.type # "access" THEN Rejection("Invalid token type")
    ELSE LET cached == get_cached_session(c, up, token.jti)
             found == by_token_jti(sess, token.jti)
             verdict == IF cached # NoSnapshot
                        THEN IF cached.is_revoked THEN Rejection("Session has been revoked")
                             ELSE IF fromisoformat(cached.expires_at) < t THEN Rejection("Session has expired")
                             ELSE [status |-> 200, detail |-> "ok", user |-> cached.user_id,
                                   sid |-> cached.session_id]
                        ELSE IF found = {} THEN Rejection("Invalid or revoked session")
                        ELSE LET session == sess[CHOOSE i \in found : TRUE]
                             IN  IF session.is_revoked THEN Rejection("Session has been revoked")
                                 ELSE IF session.expires_at < t THEN Rejection("Session has expired")
                                 ELSE [status |-> 200, detail |-> "ok", user |-> session.user_id,
                                       sid |-> session.id]
         IN  IF verdict.status # 200 THEN verdict
             ELSE IF token.sub \notin DOMAIN us THEN credentials_exception
             ELSE IF ~us[token.sub].is_active THEN Rejection("User account is inactive")
             ELSE [verdict EXCEPT !.user = token.sub]

\* variant: no check of the type claim
get_current_user_any_type(token, sess, us, c, up, t) ==
    IF ~jwt_decode_ok(token, t) THEN credentials_exception
    ELSE LET found == by_token_jti(sess, token.jti)
         IN  IF found = {} THEN Rejection("Invalid or revoked session")
             ELSE LET session == sess[CHOOSE i \in found : TRUE]
                  IN  IF session.is_revoked THEN Rejection("Session has been revoked")
                      ELSE IF session.expires_at < t THEN Rejection("Session has expired")
                      ELSE IF token.sub \notin DOMAIN us THEN credentials_exception
                      ELSE IF ~us[token.sub].is_active THEN Rejection("User account is inactive")
                      ELSE [status |-> 200, detail |-> "ok", user |-> token.sub, sid |-> session.id]

\* get_current_user: the user it returns or the HTTPException it raises.
\* c and up are the state of the session cache at the time of the call.
\* variant: a locked account is refused like an inactive one
get_current_user_refuses_locked(token, sess, us, c, up, t) ==
    IF ~jwt_decode_ok(token, t) THEN credentials_exception
    ELSE IF token.type # "access" THEN Rejection("Invalid token type")
    ELSE LET found == by_token_jti(sess, token.jti)
         IN  IF found = {} THEN Rejection("Invalid or revoked session")
             ELSE LET session == sess[CHOOSE i \in found : TRUE]
                  IN  IF session.is_revoked THEN Rejection("Session has been revoked")
                      ELSE IF session.expires_at < t THEN Rejection("Session has expired")
                      ELSE IF token.sub \notin DOMAIN us THEN credentials_exception
                      ELSE IF ~us[token.sub].is_active \/ is_account_locked(us[token.sub])
                      THEN Rejection("User account is inactive")
                      ELSE [status |-> 200, detail |-> "ok", user |-> token.sub, sid |-> session.id]

get_current_user(token, sess, us, c, up, t) ==
    IF ~jwt_decode_ok(token, t) THEN credentials_exception
    ELSE IF token.type # "access" THEN Rejection("Invalid token type")
    ELSE LET found == by_token_jti(sess, token.jti)
         IN  IF found = {} THEN Rejection("Invalid or revoked session")
             ELSE LET session == sess[CHOOSE i \in found : TRUE]
                  IN  IF session.is_revoked THEN Rejection("Session has been revoked")
                      ELSE IF session.expires_at < t THEN Rejection("Session has expired")
                      ELSE IF token.sub \notin DOMAIN us THEN credentials_exception
                      ELSE IF ~us[token.sub].is_active THEN Rejection("User account is inactive")
                      ELSE [status |-> 200, detail |-> "ok", user |-> token.sub, sid |-> session.id]

\* get_current_session: the session row it returns or the HTTPException it raises
get_current_session(token, sess, t) ==
    IF ~jwt_decode_ok(token, t) THEN credentials_exception
    ELSE IF token.type # "access" THEN Rejection("Invalid token type")
    ELSE LET found == by_token_jti(sess, token.jti)
         IN  IF found = {} THEN Rejection("Invalid or revoked session")
             ELSE LET session == sess[CHOOSE i \in found : TRUE]
                  IN  IF session.is_revoked THEN Rejection("Session has been revoked")
                      ELSE IF session.expires_at < t THEN Rejection("Session has expired")
                      ELSE [status |-> 200, detail |-> "ok", user |-> session.user_id,
                            sid |-> session.id]

\* variant: no check of the session's stored expiry
refresh_validate_no_expiry(token, sess, us, t) ==
    IF ~jwt_decode_ok(token, t)
    THEN [status |-> 401, detail |-> "Could not validate refresh token", user |-> NoUser, sid |-> 0]
    ELSE IF token.type # "refresh" THEN Rejection("Invalid token type")
    ELSE LET found == by_refresh_token_jti(sess, token.jti)
         IN  IF found = {} THEN Rejection("Invalid or revoked session")
             ELSE LET session == sess[CHOOSE i \in found : TRUE]
                  IN  IF session.is_revoked THEN Rejection("Session has been revoked")
                      ELSE IF token.sub \notin DOMAIN us
                      THEN [status |-> 401, detail |-> "Could not validate refresh token",
                            user |-> NoUser, sid |-> 0]
                      ELSE IF ~us[token.sub].is_active THEN Rejection("User account is inactive")
                      ELSE [status |-> 200, detail |-> "ok", user |-> token.sub, sid |-> session.id]

\* refresh_token, up to the point where it starts building the new pair
\* variant: the refresh does not look at the user's is_active
refresh_validate_any_user(token, sess, us, t) ==
    IF ~jwt_decode_ok(token, t)
    THEN [status |-> 401, detail |-> "Could not validate refresh token", user |-> NoUser, sid |-> 0]
    ELSE IF token.type # "refresh" THEN Rejection("Invalid token type")
    ELSE LET found == by_refresh_token_jti(sess, token.jti)
         IN  IF found = {} THEN Rejection("Invalid or revoked session")
             ELSE LET session == sess[CHOOSE i \in found : TRUE]
                  IN  IF session.is_revoked THEN Rejection("Session has been revoked")
                      ELSE IF session.expires_at < t THEN Rejection("Session has expired")
                      ELSE IF token.sub \notin DOMAIN us
                      THEN [status |-> 401, detail |-> "Could not validate refresh token",
                            user |-> NoUser, sid |-> 0]
                      ELSE [status |-> 200, detail |-> "ok", user |-> token.sub, sid |-> session.id]

refresh_validate(token, sess, us, t) ==
    IF ~jwt_decode_ok(token, t)
    THEN [status |-> 401, detail |-> "Could not validate refresh token", user |-> NoUser, sid |-> 0]
    ELSE IF token.type # "refresh" THEN Rejection("Invalid token type")
    ELSE LET found == by_refresh_token_jti(sess, token.jti)
         IN  IF found = {} THEN Rejection("Invalid or revoked session")
             ELSE LET session == sess[CHOOSE i \in found : TRUE]
                  IN  IF session.is_revoked THEN Rejection("Session has been revoked")
                      ELSE IF session.expires_at < t THEN Rejection("Session has expired")
                      ELSE IF token.sub \notin DOMAIN us
                      THEN [status |-> 401, detail |-> "Could not validate refresh token",
                            user |-> NoUser, sid |-> 0]
                      ELSE IF ~us[token.sub].is_active THEN Rejection("User account is inactive")
                      ELSE [status |-> 200, detail |-> "ok", user |-> token.sub, sid |-> session.id]

\* variant: a rotation that leaves the refresh jti in place
rotate_access_only(session, new_access_token_jti, new_refresh_token_jti, expires_at, t) ==
    [session EXCEPT !.token_jti = new_access_token_jti,
                    !.expires_at = expires_at,
                    !.last_activity_at = t]

\* the UPDATE that refresh_token's db.commit() flushes: only the columns it assigned
\* variant: the rotation writes back the whole row as the refresh loaded it,
\* not revoked
rotate_whole_row(session, new_access_token_jti, new_refresh_token_jti, expires_at, t) ==
    [session EXCEPT !.token_jti = new_access_token_jti,
                    !.refresh_token_jti = new_refresh_token_jti,
                    !.expires_at = expires_at,
                    !.last_activity_at = t,
                    !.is_revoked = FALSE,
                    !.revoked_at = NoTime]

\* variant: the rotation leaves the stored expiry as it was
rotate_keep_expiry(session, new_access_token_jti, new_refresh_token_jti, expires_at, t) ==
    [session EXCEPT !.token_jti = new_access_token_jti,
                    !.refresh_token_jti = new_refresh_token_jti,
                    !.last_activity_at = t]

rotate(session, new_access_token_jti, new_refresh_token_jti, expires_at, t) ==
    [session EXCEPT !.token_jti = new_access_token_jti,
                    !.refresh_token_jti = new_refresh_token_jti,
                    !.expires_at = expires_at,
                    !.last_activity_at = t]

(***************************************************************************)
(* State after construction: two registered users, no session, empty cache *)
(***************************************************************************)
registered(email, username, password, status, verified, active) ==
    [email |-> email, username |-> username,
     password_hash |-> get_password_hash(password),
     status |-> status, is_verified |-> verified, is_active |-> active,
     failed_login_attempts |-> 0, last_login_at |-> NoTime,
     last_password_change |-> NoTime]

Idle == [op |-> "idle", token |-> NoToken, sid |-> 0, access |-> NoToken,
         refresh |-> NoToken, expires_at |-> NoTime, at |-> NoTime]

\* a completed call: its arguments and what it returned or raised
Response(op, ident, password, token, status, detail, user, access, refresh) ==
    [op |-> op, ident |-> ident, password |-> password, token |-> token,
     status |-> status, detail |-> detail, user |-> user,
     access |-> access, refresh |-> refresh]

UsersInit(alice_status, bob_active) ==
    [u \in UserIds |->
        IF u = "alice"
        THEN registered("alice@ex.com", "alice", "Secur3Pass!", alice_status,
                        alice_status = "active", TRUE)
        ELSE registered("bob@ex.com", "bob", "Secur3Pass!", "pending_verification",
                        FALSE, bob_active)]

InitRest ==
    /\ sessions = <<>>
    /\ cache = EmptyCache
    /\ redis_up = TRUE
    /\ now = 0
    /\ next_jti = 1
    /\ issued = {}
    /\ inflight = [r \in Requests |-> Idle]
    /\ resp = Response("none", "none", "none", NoToken, 0, "none", NoUser, NoToken, NoToken)
    /\ consecutive_failures = [u \in UserIds |-> 0]
    /\ used_refresh = {}
    /\ logged_out = {}
    /\ redis_client = FALSE
    /\ successful_logins = 0
    /\ reset_log = <<>>
    /\ roles = [name \in RoleNames |->
                  [name |-> name, is_active |-> TRUE,
                   permissions |-> IF name = "Admin"
                                   THEN [json |-> "list", items |-> <<"write", "delete">>]
                                   ELSE [json |-> "list", items |-> <<"read">>]]]
    /\ user_roles = [u \in UserIds |-> {"User"}]

\* alice is verified and active, bob has been disabled before his first login
Init ==
    /\ users = UsersInit("active", FALSE)
    /\ InitRest

\* the accounts as registration or verification left them, bob possibly disabled
InitAuth ==
    /\ \E alice_status \in {"active", "pending_verification"}, bob_active \in BOOLEAN :
          users = UsersInit(alice_status, bob_active)
    /\ InitRest

\* history of failed password checks, as authenticate_user's outcome changes it
count_failures(cf, us, ident, r) ==
    IF r.branch \in {"mismatch", "ok"}
    THEN LET u == CHOOSE x \in find_user(us, ident) : TRUE
         IN  [cf EXCEPT ![u] = IF r.branch = "ok" THEN 0 ELSE @ + 1]
    ELSE cf

\* a new request takes the first free handler slot
FreeSlot(r) == inflight[r].op = "idle" /\ \A q \in Requests : q < r => inflight[q].op # "idle"

(***************************************************************************)
(* Role-based access control: models/role.py, models/user_roles.py and     *)
(* the dependency factories of core/dependencies.py                        *)
(***************************************************************************)
\* variant: every attached role counts, active or not
require_role_any_role(allowed_roles, current_user_roles) ==
    LET user_role_names == {role.name : role \in current_user_roles}
        has_required_role ==
            \E role_name \in user_role_names :
                \E i \in DOMAIN allowed_roles : allowed_roles[i] = role_name
    IN  IF ~has_required_role
        THEN [status |-> 403, detail |-> "Access denied. Required role(s)"]
        ELSE [status |-> 200, detail |-> "ok"]

\* require_role(allowed_roles).role_checker: returns, or raises 403
require_role(allowed_roles, current_user_roles) ==
    LET user_role_names == {role.name : role \in {r \in current_user_roles : r.is_active}}
        has_required_role ==
            \E role_name \in user_role_names :
                \E i \in DOMAIN allowed_roles : allowed_roles[i] = role_name
    IN  IF ~has_required_role
        THEN [status |-> 403, detail |-> "Access denied. Required role(s)"]
        ELSE [status |-> 200, detail |-> "ok"]

\* json.loads on the permissions text: JSONDecodeError, or the parsed value
json_loads(text) ==
    IF text.json = "invalid"
    THEN [raised |-> "JSONDecodeError", is_list |-> FALSE, value |-> {}]
    ELSE [raised |-> "none", is_list |-> text.json = "list",
          value |-> {text.items[i] : i \in DOMAIN text.items}]

\* variant: a role whose permissions text does not parse aborts the check
require_permission_strict(required_permissions, current_user_roles) ==
    LET parsed(role) == json_loads(role.permissions)
        considered == {role \in current_user_roles :
                          role.is_active /\ role.permissions # NullText}
        user_permissions ==
            UNION {IF parsed(role).is_list THEN parsed(role).value ELSE {} : role \in considered}
        has_required_permission ==
            \E i \in DOMAIN required_permissions : required_permissions[i] \in user_permissions
    IN  IF \E role \in considered : parsed(role).raised # "none"
        THEN [status |-> 500, detail |-> "JSONDecodeError"]
        ELSE IF ~has_required_permission
        THEN [status |-> 403, detail |-> "Access denied. Required permission(s)"]
        ELSE [status |-> 200, detail |-> "ok"]

\* require_permission(required_permissions).permission_checker: returns, or
\* raises 403.  A role adds its permissions when it is active, its text is
\* not empty, the text parses and the parsed value is a list.
require_permission(required_permissions, current_user_roles) ==
    LET parsed(role) == json_loads(role.permissions)
        considered == {role \in current_user_roles :
                          role.is_active /\ role.permissions # NullText}
        user_permissions ==
            UNION {IF parsed(role).raised = "none" /\ parsed(role).is_list
                   THEN parsed(role).value ELSE {} : role \in considered}
        has_required_permission ==
            \E i \in DOMAIN required_permissions : required_permissions[i] \in user_permissions
    IN  IF ~has_required_permission
        THEN [status |-> 403, detail |-> "Access denied. Required permission(s)"]
        ELSE [status |-> 200, detail |-> "ok"]

\* variant: the role check reads the roles claim of the presented token
role_checker_from_claim(token, sess, us, c, up, rs, ur, allowed_roles, t) ==
    LET v == get_current_user(token, sess, us, c, up, t)
    IN  IF v.status # 200 THEN [status |-> v.status, detail |-> v.detail]
        ELSE require_role(allowed_roles,
                          {[rs[name] EXCEPT !.is_active = TRUE] : name \in token.roles \cap DOMAIN rs})

\* a request to an endpoint guarded by Depends(require_role(allowed_roles)):
\* get_current_user resolves the token to the User, whose roles relationship
\* role_checker then iterates
role_checker(token, sess, us, c, up, rs, ur, allowed_roles, t) ==
    LET v == get_current_user(token, sess, us, c, up, t)
    IN  IF v.status # 200 THEN [status |-> v.status, detail |-> v.detail]
        ELSE require_role(allowed_roles, user_roles_of(rs, ur, v.user))

\* the same for Depends(require_permission(required_permissions))
permission_checker(token, sess, us, c, up, rs, ur, required_permissions, t) ==
    LET v == get_current_user(token, sess, us, c, up, t)
    IN  IF v.status # 200 THEN [status |-> v.status, detail |-> v.detail]
        ELSE require_permission(required_permissions, user_roles_of(rs, ur, v.user))

(***************************************************************************)
(* Password reset: AuthService.request_password_reset and                  *)
(* confirm_password_reset over the mapped columns of models/user.py        *)
(***************************************************************************)
\* the mapped columns of User the model keeps
UserColumns == DOMAIN registered("", "", "", "", FALSE, FALSE)

\* db.commit() of a loaded row: the UPDATE carries the assigned attributes
\* that are mapped columns; any other assigned attribute is a plain
\* attribute of the Python object and goes with it
flush(row, assigned) ==
    [c \in DOMAIN row |-> IF c \in DOMAIN assigned THEN assigned[c] ELSE row[c]]

\* the n-th value of secrets.token_urlsafe(32), an opaque string
reset_token(n) == [NoToken EXCEPT !.jti = n, !.type = "password_reset"]

\* request_password_reset: what it returns, the user rows after its commit
\* and what it logs
request_password_reset(us, email, token, t) ==
    LET found == get_user_by_email(us, email)
    IN  IF found = {}
        THEN [result |-> TRUE, users |-> us, logged |-> <<>>]
        ELSE LET u == CHOOSE x \in found : TRUE
                 expires_at == t + RESET_TOKEN_EXPIRE
             IN  [result |-> TRUE,
                  users |-> [us EXCEPT ![u] =
                               flush(@, [password_reset_token |-> token,
                                         password_reset_expires |-> expires_at])],
                  logged |-> <<[token |-> token, user |-> u, expires_at |-> expires_at,
                                confirmed |-> FALSE]>>]

\* confirm_password_reset: what it returns or raises and the user rows after.
\* Its query names User.password_reset_token; on a class without that mapped
\* column the attribute access raises AttributeError before any row is read.
confirm_password_reset(us, token, new_password, t) ==
    IF "password_reset_token" \notin UserColumns
    THEN [status |-> 500, detail |-> "AttributeError", user |-> NoUser, users |-> us]
    ELSE LET found == {u \in DOMAIN us : us[u].password_reset_token = token}
         IN  IF found = {}
             THEN [status |-> 400, detail |-> "Invalid or expired reset token",
                   user |-> NoUser, users |-> us]
             ELSE LET u == CHOOSE x \in found : TRUE
                  IN  IF \/ us[u].password_reset_expires = NoTime
                         \/ us[u].password_reset_expires < t
                      THEN [status |-> 400, detail |-> "Invalid or expired reset token",
                            user |-> NoUser, users |-> us]
                      ELSE [status |-> 200, detail |-> "ok", user |-> u,
                            users |-> [us EXCEPT ![u] =
                                flush(@, [password_hash |-> get_password_hash(new_password),
                                          password_reset_token |-> NoToken,
                                          password_reset_expires |-> NoTime,
                                          last_password_change |-> t])]]

(***************************************************************************)
(* Operations                                                              *)
(***************************************************************************)
\* AuthService.authenticate_user called on its own
AuthenticateUser(ident, password) ==
    LET r == authenticate_user(users, ident, password, now)
    IN  /\ users' = r.users
        /\ consecutive_failures' = count_failures(consecutive_failures, users, ident, r)
        /\ resp' = Response("authenticate_user", ident, password, NoToken, r.status, r.detail,
                            r.user, NoToken, NoToken)
        /\ UNCHANGED <<sessions, cache, redis_up, now, next_jti, issued, inflight,
                       used_refresh, logged_out, redis_client, successful_logins,
                       reset_log, roles, user_roles>>

\* User.unlock_account, committed
UnlockAccount(u) ==
    /\ users' = [users EXCEPT ![u] = unlock_account(users[u])]
    /\ consecutive_failures' = [consecutive_failures EXCEPT ![u] = 0]
    /\ resp' = Response("unlock_account", "none", "none", NoToken, 200, "ok", u, NoToken, NoToken)
    /\ UNCHANGED <<sessions, cache, redis_up, now, next_jti, issued, inflight,
                   used_refresh, logged_out, redis_client, successful_logins, reset_log,
                   roles, user_roles>>

\* POST /login: authenticate_user, then the token pair, then create_session
Login(ident, password) ==
    LET r == authenticate_user(users, ident, password, now)
    IN  /\ users' = r.users
        /\ consecutive_failures' = count_failures(consecutive_failures, users, ident, r)
        /\ IF r.branch # "ok"
           THEN /\ resp' = Response("login", ident, password, NoToken, r.status, r.detail, r.user,
                                    NoToken, NoToken)
                /\ UNCHANGED <<sessions, cache, redis_client, next_jti, issued,
                               successful_logins>>
           ELSE LET access_token_jti == next_jti
                    refresh_token_jti == next_jti + 1
                    access_token_exp_time == now + ACCESS_TOKEN_EXPIRE
                    refresh_token_exp_time == now + REFRESH_TOKEN_EXPIRE
                    access == access_token_payload(r.user, token_role_names(roles, user_roles, r.user),
                                                   access_token_jti, access_token_exp_time)
                    refresh == refresh_token_payload(r.user, refresh_token_jti, refresh_token_exp_time)
                    row == new_session(sessions, r.user, access_token_jti, refresh_token_jti,
                                       access_token_exp_time, now)
                    cached == cache_session(cache, redis_client, redis_up, row,
                                            orm_user(r.users, roles, user_roles, r.user), now)
                IN  /\ Len(sessions) < MaxSessions
                    /\ next_jti + 1 <= MaxJti
                    /\ sessions' = Append(sessions, row)
                    /\ cache' = cached.cache
                    /\ redis_client' = get_redis_client(redis_client, redis_up).client
                    /\ next_jti' = next_jti + 2
                    /\ IF cached.result = "AttributeError"
                       THEN /\ UNCHANGED <<issued, successful_logins>>
                            /\ resp' = Response("login", ident, password, NoToken, 500,
                                                "An error occurred during login", NoUser,
                                                NoToken, NoToken)
                       ELSE /\ issued' = issued \cup {access, refresh}
                            /\ successful_logins' = successful_logins + 1
                            /\ resp' = Response("login", ident, password, NoToken, 200, "ok",
                                                r.user, access, refresh)
        /\ UNCHANGED <<redis_up, now, inflight, used_refresh, logged_out, reset_log, roles, user_roles>>

\* AuthService.create_session called on its own, with jtis of the caller's
\* choice; the IntegrityError of a duplicate jti leaves create_session before
\* cache_session is reached
CreateSession(u, access_token_jti, refresh_token_jti) ==
    LET expires_at == now + ACCESS_TOKEN_EXPIRE
        row == new_session(sessions, u, access_token_jti, refresh_token_jti, expires_at, now)
        inserted == insert_session(sessions, row)
        cached == cache_session(cache, redis_client, redis_up, row,
                                orm_user(users, roles, user_roles, u), now)
        access == access_token_payload(u, token_role_names(roles, user_roles, u), access_token_jti,
                                       expires_at)
        refresh == refresh_token_payload(u, refresh_token_jti, now + REFRESH_TOKEN_EXPIRE)
    IN  /\ Len(sessions) < MaxSessions
        /\ sessions' = inserted.sessions
        /\ IF inserted.ok
           THEN /\ cache' = cached.cache
                /\ redis_client' = get_redis_client(redis_client, redis_up).client
                /\ resp' = Response("create_session", "none", "none", NoToken,
                                    IF cached.result = "AttributeError" THEN 500 ELSE 200,
                                    cached.result, u, access, refresh)
           ELSE /\ resp' = Response("create_session", "none", "none", NoToken, 500,
                                    "IntegrityError", u, access, refresh)
                /\ UNCHANGED <<cache, redis_client>>
        /\ UNCHANGED <<users, redis_up, now, next_jti, issued, inflight, consecutive_failures,
                       used_refresh, logged_out, successful_logins, reset_log, roles, user_roles>>

\* a protected request: the get_current_user dependency
GetCurrentUser(token) ==
    LET v == get_current_user(token, sessions, users, cache, redis_up, now)
    IN  /\ resp' = Response("get_current_user", "none", "none", token, v.status, v.detail, v.user,
                            NoToken, NoToken)
        /\ UNCHANGED <<users, sessions, cache, redis_up, now, next_jti, issued, inflight,
                       consecutive_failures, used_refresh, logged_out, redis_client,
                       successful_logins, reset_log, roles, user_roles>>

\* POST /refresh up to its db.commit(): decode, queries, checks, the new pair
RefreshBegin(r, token) ==
    LET v == refresh_validate(token, sessions, users, now)
    IN  /\ FreeSlot(r)
        /\ IF v.status # 200
           THEN /\ resp' = Response("refresh", "none", "none", token, v.status, v.detail, NoUser,
                                    NoToken, NoToken)
                /\ UNCHANGED <<inflight, next_jti>>
           ELSE /\ next_jti + 1 <= MaxJti
                /\ inflight' = [inflight EXCEPT ![r] =
                      [op |-> "refresh", token |-> token, sid |-> v.sid,
                       access |-> access_token_payload(v.user, token_role_names(roles, user_roles, v.user),
                                                       next_jti, now + ACCESS_TOKEN_EXPIRE),
                       refresh |-> refresh_token_payload(v.user, next_jti + 1,
                                                         now + REFRESH_TOKEN_EXPIRE),
                       expires_at |-> now + ACCESS_TOKEN_EXPIRE, at |-> now]]
                /\ next_jti' = next_jti + 2
                /\ UNCHANGED resp
        /\ UNCHANGED <<users, sessions, cache, redis_up, now, issued,
                       consecutive_failures, used_refresh, logged_out, redis_client,
                       successful_logins, reset_log, roles, user_roles>>

\* POST /refresh: db.commit() of the rotated row, and the response
RefreshCommit(r) ==
    LET f == inflight[r]
    IN  /\ f.op = "refresh"
        /\ sessions' = [sessions EXCEPT ![f.sid] =
                           rotate(@, f.access.jti, f.refresh.jti, f.expires_at, f.at)]
        /\ issued' = issued \cup {f.access, f.refresh}
        /\ used_refresh' = used_refresh \cup {f.token}
        /\ resp' = Response("refresh", "none", "none", f.token, 200, "ok", f.access.sub,
                            f.access, f.refresh)
        /\ inflight' = [inflight EXCEPT ![r] = Idle]
        /\ UNCHANGED <<users, cache, redis_up, now, next_jti, consecutive_failures, logged_out,
            redis_client, successful_logins, reset_log, roles, user_roles>>

\* POST /logout: the get_current_session dependency
LogoutBegin(r, token) ==
    LET v == get_current_session(token, sessions, now)
    IN  /\ FreeSlot(r)
        /\ IF v.status # 200
           THEN /\ resp' = Response("logout", "none", "none", token, v.status, v.detail, NoUser,
                                    NoToken, NoToken)
                /\ UNCHANGED inflight
           ELSE /\ inflight' = [inflight EXCEPT ![r] =
                      [Idle EXCEPT !.op = "logout", !.token = token, !.sid = v.sid]]
                /\ UNCHANGED resp
        /\ UNCHANGED <<users, sessions, cache, redis_up, now, next_jti, issued,
                       consecutive_failures, used_refresh, logged_out, redis_client,
                       successful_logins, reset_log, roles, user_roles>>

\* POST /logout: session.revoke() and db.commit()
LogoutCommit(r) ==
    LET f == inflight[r]
    IN  /\ f.op = "logout"
        /\ sessions' = [sessions EXCEPT ![f.sid] = revoke(@, now)]
        /\ logged_out' = logged_out \cup
              {f.token.jti, sessions[f.sid].token_jti, sessions[f.sid].refresh_token_jti}
        /\ resp' = Response("logout", "none", "none", f.token, 200, "Successfully logged out",
                            sessions[f.sid].user_id, NoToken, NoToken)
        /\ inflight' = [inflight EXCEPT ![r] = Idle]
        /\ UNCHANGED <<users, cache, redis_up, now, next_jti, issued,
                       consecutive_failures, used_refresh, redis_client,
                       successful_logins, reset_log, roles, user_roles>>

\* AuthService.request_password_reset
RequestPasswordReset(email) ==
    LET r == request_password_reset(users, email, reset_token(Len(reset_log) + 1), now)
    IN  /\ Len(reset_log) + Len(r.logged) <= MaxResets
        /\ users' = r.users
        /\ reset_log' = reset_log \o r.logged
        /\ resp' = Response("request_password_reset", email, "none", NoToken,
                            IF r.result THEN 200 ELSE 500, "ok", NoUser, NoToken, NoToken)
        /\ UNCHANGED <<sessions, cache, redis_up, now, next_jti, issued, inflight,
                       consecutive_failures, used_refresh, logged_out, redis_client,
                       successful_logins, roles, user_roles>>

\* AuthService.confirm_password_reset
ConfirmPasswordReset(token, new_password) ==
    LET r == confirm_password_reset(users, token, new_password, now)
    IN  /\ users' = r.users
        /\ reset_log' = [i \in DOMAIN reset_log |->
                            IF r.status = 200 /\ reset_log[i].token = token
                            THEN [reset_log[i] EXCEPT !.confirmed = TRUE]
                            ELSE reset_log[i]]
        /\ resp' = Response("confirm_password_reset", "none", new_password, token,
                            r.status, r.detail, r.user, NoToken, NoToken)
        /\ UNCHANGED <<sessions, cache, redis_up, now, next_jti, issued, inflight,
                       consecutive_failures, used_refresh, logged_out, redis_client,
                       successful_logins, roles, user_roles>>

\* a row of user_roles is inserted
AssignRole(u, name) ==
    /\ name \notin user_roles[u]
    /\ user_roles' = [user_roles EXCEPT ![u] = @ \cup {name}]
    /\ UNCHANGED <<users, sessions, cache, redis_up, now, next_jti, issued, inflight, resp,
                   consecutive_failures, used_refresh, logged_out, redis_client,
                   successful_logins, reset_log, roles>>

\* a row of user_roles is deleted
UnassignRole(u, name) ==
    /\ name \in user_roles[u]
    /\ user_roles' = [user_roles EXCEPT ![u] = @ \ {name}]
    /\ UNCHANGED <<users, sessions, cache, redis_up, now, next_jti, issued, inflight, resp,
                   consecutive_failures, used_refresh, logged_out, redis_client,
                   successful_logins, reset_log, roles>>

\* Role.is_active of one role is set
SetRoleActive(name, active) ==
    /\ roles[name].is_active # active
    /\ roles' = [roles EXCEPT ![name].is_active = active]
    /\ UNCHANGED <<users, sessions, cache, redis_up, now, next_jti, issued, inflight, resp,
                   consecutive_failures, used_refresh, logged_out, redis_client,
                   successful_logins, reset_log, user_roles>>

\* an endpoint guarded by Depends(require_role(allowed_roles)), reached by
\* the authenticated user u
RequireRole(u, allowed_roles) ==
    LET v == require_role(allowed_roles, user_roles_of(roles, user_roles, u))
    IN  /\ resp' = Response("require_role", "none", "none", NoToken, v.status, v.detail, u,
                            NoToken, NoToken)
        /\ UNCHANGED <<users, sessions, cache, redis_up, now, next_jti, issued, inflight,
                       consecutive_failures, used_refresh, logged_out, redis_client,
                       successful_logins, reset_log, roles, user_roles>>

\* Role.permissions of one role is set
SetRolePermissions(name, text) ==
    /\ roles[name].permissions # text
    /\ roles' = [roles EXCEPT ![name].permissions = text]
    /\ UNCHANGED <<users, sessions, cache, redis_up, now, next_jti, issued, inflight, resp,
                   consecutive_failures, used_refresh, logged_out, redis_client,
                   successful_logins, reset_log, user_roles>>

\* an endpoint guarded by Depends(require_permission(required_permissions)),
\* reached by the authenticated user u
RequirePermission(u, required_permissions) ==
    LET v == require_permission(required_permissions, user_roles_of(roles, user_roles, u))
    IN  /\ resp' = Response("require_permission", "none", "none", NoToken, v.status, v.detail,
                            u, NoToken, NoToken)
        /\ UNCHANGED <<users, sessions, cache, redis_up, now, next_jti, issued, inflight,
                       consecutive_failures, used_refresh, logged_out, redis_client,
                       successful_logins, reset_log, roles, user_roles>>

\* a request with a bearer token to an endpoint guarded by require_role
RoleGuardedRequest(token, allowed_roles) ==
    LET v == role_checker(token, sessions, users, cache, redis_up, roles, user_roles,
                          allowed_roles, now)
    IN  /\ resp' = Response("role_checker", "none", "none", token, v.status, v.detail,
                            token.sub, NoToken, NoToken)
        /\ UNCHANGED <<users, sessions, cache, redis_up, now, next_jti, issued, inflight,
                       consecutive_failures, used_refresh, logged_out, redis_client,
                       successful_logins, reset_log, roles, user_roles>>

\* a request with a bearer token to an endpoint guarded by require_permission
PermissionGuardedRequest(token, required_permissions) ==
    LET v == permission_checker(token, sessions, users, cache, redis_up, roles, user_roles,
                                required_permissions, now)
    IN  /\ resp' = Response("permission_checker", "none", "none", token, v.status, v.detail,
                            token.sub, NoToken, NoToken)
        /\ UNCHANGED <<users, sessions, cache, redis_up, now, next_jti, issued, inflight,
                       consecutive_failures, used_refresh, logged_out, redis_client,
                       successful_logins, reset_log, roles, user_roles>>

\* cache_session(session, user) called on a stored session row and its user
CacheSession(i) ==
    LET session == sessions[i]
        cached == cache_session(cache, redis_client, redis_up, session,
                                orm_user(users, roles, user_roles, session.user_id), now)
    IN  /\ cache' = cached.cache
        /\ redis_client' = get_redis_client(redis_client, redis_up).client
        /\ resp' = Response("cache_session", "none", "none",
                            [NoToken EXCEPT !.jti = session.token_jti],
                            IF cached.result = "AttributeError" THEN 500 ELSE 200,
                            cached.result, session.user_id, NoToken, NoToken)
        /\ UNCHANGED <<users, sessions, redis_up, now, next_jti, issued, inflight,
                       consecutive_failures, used_refresh, logged_out,
                       successful_logins, reset_log, roles, user_roles>>

\* get_cached_session(token_jti)
GetCachedSession(token_jti) ==
    LET cached == get_cached_session(cache, redis_up, token_jti)
    IN  /\ redis_client' = get_redis_client(redis_client, redis_up).client
        /\ resp' = Response("get_cached_session", "none", "none",
                            [NoToken EXCEPT !.jti = token_jti], 200,
                            IF cached = NoSnapshot THEN "None" ELSE "snapshot",
                            cached.user_id, NoToken, NoToken)
        /\ UNCHANGED <<users, sessions, cache, redis_up, now, next_jti, issued, inflight,
                       consecutive_failures, used_refresh, logged_out,
                       successful_logins, reset_log, roles, user_roles>>

\* invalidate_session(token_jti)
InvalidateSession(token_jti) ==
    LET invalidated == invalidate_session(cache, redis_client, redis_up, token_jti)
    IN  /\ cache' = invalidated.cache
        /\ redis_client' = get_redis_client(redis_client, redis_up).client
        /\ resp' = Response("invalidate_session", "none", "none",
                            [NoToken EXCEPT !.jti = token_jti], 200,
                            IF invalidated.result THEN "True" ELSE "False",
                            NoUser, NoToken, NoToken)
        /\ UNCHANGED <<users, sessions, redis_up, now, next_jti, issued, inflight,
                       consecutive_failures, used_refresh, logged_out,
                       successful_logins, reset_log, roles, user_roles>>

\* the attributes of a loaded row that the handler changed: the columns of
\* the UPDATE the unit of work emits at commit
dirty(loaded, changed) ==
    [c \in {x \in DOMAIN changed : changed[x] # loaded[x]} |-> changed[c]]

\* variant: the commit re-reads the row and applies the attempt to it
commit_login_attempt_atomic(stored, loaded, success, t) ==
    record_login_attempt(stored, success, t)

\* authenticate_user's db.commit(): UPDATE of the columns record_login_attempt
\* changed on the row as it was loaded, whatever the store holds by then
commit_login_attempt(stored, loaded, success, t) ==
    flush(stored, dirty(loaded, record_login_attempt(loaded, success, t)))

\* authenticate_user in worker r up to verify_password: the user is loaded
\* and the lockout and active checks are made on the loaded row
AuthBegin(r, ident, password) ==
    LET v == authenticate_user(users, ident, password, now)
        user == CHOOSE x \in find_user(users, ident) : TRUE
    IN  /\ FreeSlot(r)
        /\ IF v.branch \in {"not_found", "locked", "inactive"}
           THEN /\ resp' = Response("authenticate_user", ident, password, NoToken, v.status,
                                    v.detail, v.user, NoToken, NoToken)
                /\ UNCHANGED inflight
           ELSE /\ inflight' = [inflight EXCEPT ![r] =
                      [op |-> "authenticate_user", ident |-> ident, password |-> password,
                       user |-> user, loaded |-> users[user],
                       success |-> v.branch = "ok", at |-> now]]
                /\ UNCHANGED resp
        /\ UNCHANGED <<users, sessions, cache, redis_up, now, next_jti, issued,
                       consecutive_failures, used_refresh, logged_out, redis_client,
                       successful_logins, reset_log, roles, user_roles>>

\* authenticate_user in worker r: record_login_attempt on the loaded row,
\* db.commit(), and the outcome
AuthCommit(r) ==
    LET f == inflight[r]
    IN  /\ f.op = "authenticate_user"
        /\ users' = [users EXCEPT ![f.user] =
                        commit_login_attempt(users[f.user], f.loaded, f.success, f.at)]
        /\ consecutive_failures' =
              [consecutive_failures EXCEPT ![f.user] = IF f.success THEN 0 ELSE @ + 1]
        /\ resp' = IF f.success
                   THEN Response("authenticate_user", f.ident, f.password, NoToken, 200, "ok",
                                 f.user, NoToken, NoToken)
                   ELSE Response("authenticate_user", f.ident, f.password, NoToken,
                                 PasswordMismatchError.status, PasswordMismatchError.detail,
                                 NoUser, NoToken, NoToken)
        /\ inflight' = [inflight EXCEPT ![r] = Idle]
        /\ UNCHANGED <<sessions, cache, redis_up, now, next_jti, issued,
                       used_refresh, logged_out, redis_client, successful_logins,
                       reset_log, roles, user_roles>>

\* User.is_active of one account is cleared in the store
DeactivateUser(u) ==
    /\ users[u].is_active
    /\ users' = [users EXCEPT ![u].is_active = FALSE]
    /\ UNCHANGED <<sessions, cache, redis_up, now, next_jti, issued, inflight, resp,
                   consecutive_failures, used_refresh, logged_out, redis_client,
                   successful_logins, reset_log, roles, user_roles>>

\* the clock over the lifetime of a reset token
TickReset ==
    /\ now < MaxResetTime
    /\ now' = now + 1
    /\ cache' = expire_keys(cache, now + 1)
    /\ UNCHANGED <<users, sessions, redis_up, next_jti, issued, inflight, resp,
                   consecutive_failures, used_refresh, logged_out, redis_client,
                   successful_logins, reset_log, roles, user_roles>>

\* the clock advances between requests (a handler takes far less than a tick);
\* Redis expires the keys whose TTL ran out
Tick ==
    /\ now < MaxTime
    /\ \A r \in Requests : inflight[r].op = "idle"
    /\ now' = now + 1
    /\ cache' = expire_keys(cache, now + 1)
    /\ UNCHANGED <<users, sessions, redis_up, next_jti, issued, inflight, resp,
                   consecutive_failures, used_refresh, logged_out, redis_client,
                   successful_logins, reset_log, roles, user_roles>>

\* the Redis server becomes unreachable, or reachable again
RedisDown ==
    /\ redis_up
    /\ redis_up' = FALSE
    /\ UNCHANGED <<users, sessions, cache, now, next_jti, issued, inflight, resp,
                   consecutive_failures, used_refresh, logged_out, redis_client,
                   successful_logins, reset_log, roles, user_roles>>

RedisUp ==
    /\ ~redis_up
    /\ redis_up' = TRUE
    /\ UNCHANGED <<users, sessions, cache, now, next_jti, issued, inflight, resp,
                   consecutive_failures, used_refresh, logged_out, redis_client,
                   successful_logins, reset_log, roles, user_roles>>

TokenInputs == issued \cup {ForgedToken}

(***************************************************************************)
(* Specifications                                                          *)
(***************************************************************************)
\* credential checks and lockout
NextAuth ==
    \/ \E ident \in Identifiers, password \in Passwords : AuthenticateUser(ident, password)
    \/ \E u \in UserIds : UnlockAccount(u)

SpecAuth == InitAuth /\ [][NextAuth]_vars

\* sessions, tokens and the cache over time, one refresh or logout at a time
Next ==
    \/ \E u \in UserIds : Login(users[u].email, "Secur3Pass!")
    \/ \E token \in TokenInputs : GetCurrentUser(token)
    \/ \E token \in TokenInputs : RefreshBegin(1, token)
    \/ RefreshCommit(1)
    \/ \E token \in TokenInputs : LogoutBegin(1, token)
    \/ LogoutCommit(1)
    \/ Tick
    \/ RedisDown
    \/ RedisUp

Spec == Init /\ [][Next]_vars

\* refresh and logout handlers of several workers interleaving at their
\* database statements, within one tick
NextRace ==
    \/ \E u \in UserIds : Login(users[u].email, "Secur3Pass!")
    \/ \E token \in TokenInputs : GetCurrentUser(token)
    \/ \E r \in Requests, token \in TokenInputs : RefreshBegin(r, token)
    \/ \E r \in Requests : RefreshCommit(r)
    \/ \E r \in Requests, token \in TokenInputs : LogoutBegin(r, token)
    \/ \E r \in Requests : LogoutCommit(r)

SpecRace == Init /\ [][NextRace]_vars

\* password reset over the lifetime of its tokens
ResetTokenInputs == {reset_log[i].token : i \in DOMAIN reset_log} \cup {reset_token(0)}

NextReset ==
    \/ \E email \in ResetEmails : RequestPasswordReset(email)
    \/ \E token \in ResetTokenInputs, new_password \in NewPasswords :
          ConfirmPasswordReset(token, new_password)
    \/ TickReset

SpecReset == Init /\ [][NextReset]_vars

\* role checks while roles are attached, detached, deactivated and reactivated
NextRbac ==
    \/ \E u \in UserIds, name \in RoleNames : AssignRole(u, name)
    \/ \E u \in UserIds, name \in RoleNames : UnassignRole(u, name)
    \/ \E name \in RoleNames, active \in BOOLEAN : SetRoleActive(name, active)
    \/ \E u \in UserIds, allowed_roles \in AllowedRolesInputs : RequireRole(u, allowed_roles)

SpecRbac == Init /\ [][NextRbac]_vars

\* permission checks while the roles of alice and the permissions texts change
NextPerm ==
    \/ \E name \in RoleNames : AssignRole("alice", name)
    \/ \E name \in RoleNames : UnassignRole("alice", name)
    \/ \E name \in RoleNames, active \in BOOLEAN : SetRoleActive(name, active)
    \/ \E name \in RoleNames, text \in PermissionTexts : SetRolePermissions(name, text)
    \/ \E u \in UserIds, required_permissions \in RequiredPermissionsInputs :
          RequirePermission(u, required_permissions)

SpecPerm == Init /\ [][NextPerm]_vars

\* the cache operations called on the sessions of alice, live and revoked
NextCache ==
    \/ Login("alice@ex.com", "Secur3Pass!")
    \/ \E token \in issued : LogoutBegin(1, token)
    \/ LogoutCommit(1)
    \/ \E i \in DOMAIN sessions : CacheSession(i)
    \/ \E token_jti \in 1..MaxStoreJti : GetCachedSession(token_jti)
    \/ \E token_jti \in 1..MaxStoreJti : InvalidateSession(token_jti)
    \/ \E active \in BOOLEAN : SetRoleActive("User", active)
    \/ RedisDown
    \/ RedisUp

SpecCache == Init /\ [][NextCache]_vars

\* sessions of alice cached at login and cached again later in their life
NextTtl ==
    \/ Login("alice@ex.com", "Secur3Pass!")
    \/ \E i \in DOMAIN sessions : CacheSession(i)
    \/ \E token_jti \in 1..MaxStoreJti : GetCachedSession(token_jti)
    \/ Tick

SpecTtl == Init /\ [][NextTtl]_vars

\* requests and refreshes of alice's sessions while logins with a wrong
\* password lock her account
NextLock ==
    \/ \E password \in Passwords : Login("alice@ex.com", password)
    \/ \E token \in TokenInputs : GetCurrentUser(token)
    \/ \E token \in TokenInputs : RefreshBegin(1, token)
    \/ RefreshCommit(1)
    \/ Tick

SpecLock == Init /\ [][NextLock]_vars

\* password reset of an account that has sessions and failed logins
NextResetFrame ==
    \/ \E password \in Passwords : Login("alice@ex.com", password)
    \/ RequestPasswordReset("alice@ex.com")
    \/ \E token \in ResetTokenInputs, new_password \in NewPasswords :
          ConfirmPasswordReset(token, new_password)
    \/ \E token \in TokenInputs : GetCurrentUser(token)

SpecResetFrame == Init /\ [][NextResetFrame]_vars

\* requests and refreshes with the tokens of alice around her deactivation
NextDeactivate ==
    \/ Login("alice@ex.com", "Secur3Pass!")
    \/ \E u \in UserIds : DeactivateUser(u)
    \/ \E token \in TokenInputs : GetCurrentUser(token)
    \/ \E token \in TokenInputs : RefreshBegin(1, token)
    \/ RefreshCommit(1)

SpecDeactivate == Init /\ [][NextDeactivate]_vars

\* authenticate_user calls of several workers interleaving between the load
\* of the user row and the commit
NextAuthRace ==
    \/ \E r \in Requests, ident \in {"alice@ex.com", "bob"}, password \in Passwords :
          AuthBegin(r, ident, password)
    \/ \E r \in Requests : AuthCommit(r)

SpecAuthRace == Init /\ [][NextAuthRace]_vars

\* guarded requests with tokens issued before the roles of alice changed
NextLive ==
    \/ Login("alice@ex.com", "Secur3Pass!")
    \/ \E name \in {"Admin", "Analyst"} : AssignRole("alice", name)
    \/ \E name \in {"Admin", "Analyst"} : UnassignRole("alice", name)
    \/ \E active \in BOOLEAN : SetRoleActive("Admin", active)
    \/ \E text \in PermissionTexts : SetRolePermissions("Admin", text)
    \/ \E token \in TokenInputs : RoleGuardedRequest(token, <<"Admin">>)
    \/ \E token \in TokenInputs : PermissionGuardedRequest(token, <<"write">>)

SpecLive == Init /\ [][NextLive]_vars

\* the session table under inserts with arbitrary jtis
NextStore ==
    \/ \E u \in UserIds, access_token_jti \in 1..MaxStoreJti,
          refresh_token_jti \in 1..MaxStoreJti :
          CreateSession(u, access_token_jti, refresh_token_jti)

SpecStore == Init /\ [][NextStore]_vars

(***************************************************************************)
(* Properties of the credential check (SpecAuth)                           *)
(***************************************************************************)
\* the user an identifier resolves to, NoUser when there is none
TargetOf(us, ident) ==
    IF find_user(us, ident) = {} THEN NoUser ELSE CHOOSE x \in find_user(us, ident) : TRUE

AuthStep == resp'.op = "authenticate_user"

\* C1: after 5 consecutive failed password checks the account is locked, a
\* locked account stays locked through every step but unlock_account, and
\* authenticate_user on a locked account fails with 403 (account locked)
\* also when the password is the right one.
C1_LockoutSticky ==
    [][ /\ \A u \in UserIds :
              consecutive_failures'[u] >= 5 => is_account_locked(users'[u])
        /\ \A u \in UserIds :
              (is_account_locked(users[u]) /\ ~(resp'.op = "unlock_account" /\ resp'.user = u))
                  => is_account_locked(users'[u])
        /\ \A u \in UserIds :
              (AuthStep /\ TargetOf(users, resp'.ident) = u /\ is_account_locked(users[u]))
                  => /\ resp'.status = 403
                     /\ resp'.detail = "Account locked due to too many failed attempts. Please contact support."
                     /\ resp'.user = NoUser
      ]_vars

\* C1 witness: the correct password was tried on an account locked by 5 failures
C1_Witness ==
    /\ resp.op = "authenticate_user"
    /\ resp.ident = "alice"
    /\ resp.password = "Secur3Pass!"
    /\ resp.status = 403
    /\ consecutive_failures["alice"] = 5
    /\ users["alice"].failed_login_attempts = 5

\* C2: on an active, unlocked account the matching password returns the user
\* and leaves the counter at 0; a non-matching password fails with 401
\* 'Invalid credentials' and adds exactly 1 to the counter.
C2_CounterOnOutcome ==
    [][ \A u \in UserIds :
          (/\ AuthStep
           /\ TargetOf(users, resp'.ident) = u
           /\ users[u].is_active
           /\ ~is_account_locked(users[u]))
          => IF users[u].password_hash = get_password_hash(resp'.password)
             THEN /\ resp'.status = 200
                  /\ resp'.user = u
                  /\ users'[u].failed_login_attempts = 0
             ELSE /\ resp'.status = 401
                  /\ resp'.detail = "Invalid credentials"
                  /\ resp'.user = NoUser
                  /\ users'[u].failed_login_attempts = users[u].failed_login_attempts + 1
      ]_vars

\* C2 witness: a successful login has reset a counter that failures had raised
C2_Witness ==
    /\ resp.op = "authenticate_user"
    /\ resp.status = 200
    /\ resp.user = "alice"
    /\ users["alice"].failed_login_attempts = 0
    /\ users["bob"].failed_login_attempts = 2

\* C3: an identifier that matches no user and an identifier of a user whose
\* password check fails get the same status code and the same detail.
C3_NoEnumeration ==
    \A unknown \in Identifiers, known \in Identifiers, p1 \in Passwords, p2 \in Passwords :
        LET a == authenticate_user(users, unknown, p1, now)
            b == authenticate_user(users, known, p2, now)
        IN  (a.branch = "not_found" /\ b.branch = "mismatch")
                => (a.status = b.status /\ a.detail = b.detail /\ a.user = b.user)

\* C3 witness: both kinds of call are possible in the state, and a wrong
\* password has just been answered
C3_Witness ==
    /\ resp.op = "authenticate_user"
    /\ resp.status = 401
    /\ TargetOf(users, resp.ident) # NoUser
    /\ \E unknown \in Identifiers, p \in Passwords :
          authenticate_user(users, unknown, p, now).branch = "not_found"

(***************************************************************************)
(* Properties of sessions, tokens and the cache (Spec, SpecRace)           *)
(***************************************************************************)
RefreshCommitStep(r) == inflight[r].op = "refresh" /\ inflight'[r].op = "idle"

GetCurrentUserStep == resp' # resp /\ resp'.op = "get_current_user"

Accepts(v, u) == v.status = 200 /\ v.user = u

C5_RevocationPermanent ==
    \A token \in issued :
        token.jti \in logged_out
            => /\ get_current_user(token, sessions, users, cache, redis_up, now).status = 401
               /\ refresh_validate(token, sessions, users, now).status = 401

\* C5 witness: the access token of a logged-out session was refused although
\* the cache still holds its snapshot with is_revoked false
C5_Witness ==
    /\ resp.op = "get_current_user"
    /\ resp.status = 401
    /\ resp.token.jti \in logged_out
    /\ redis_up
    /\ resp.token.jti \in DOMAIN cache
    /\ ~cache[resp.token.jti].is_revoked

\* C6 (as claimed): of the refresh requests that carry the same refresh token,
\* at most one commits a rotation and returns a pair.
C6_OneRotationWins ==
    [][ \A r \in Requests :
          RefreshCommitStep(r) => inflight[r].token \notin used_refresh ]_vars

\* C7: get_current_user gives the same result for a token whether the cache
\* is unreachable, empty, or in the state the handlers left it in.
C7_CacheNeutral ==
    \A token \in TokenInputs :
        LET v == get_current_user(token, sessions, users, cache, redis_up, now)
        IN  /\ v = get_current_user(token, sessions, users, cache, FALSE, now)
            /\ v = get_current_user(token, sessions, users, EmptyCache, TRUE, now)
            /\ v = get_current_user(token, sessions, users, cache, TRUE, now)

\* C7 witness: the cache holds create_session's snapshot, still marked valid,
\* for a token the store no longer accepts
C7_Witness ==
    \E token \in issued :
        /\ token.type = "access"
        /\ jwt_decode_ok(token, now)
        /\ token.jti \in DOMAIN cache
        /\ ~cache[token.jti].is_revoked
        /\ ~(fromisoformat(cache[token.jti].expires_at) < now)
        /\ get_current_user(token, sessions, users, cache, redis_up, now).status = 401

C9_HitDecidesFromSnapshot ==
    \A token \in issued :
        LET cached == get_cached_session(cache, redis_up, token.jti)
        IN  (/\ token.type = "access"
             /\ jwt_decode_ok(token, now)
             /\ cached # NoSnapshot
             /\ users[token.sub].is_active)
            => (get_current_user(token, sessions, users, cache, redis_up, now).status = 200
                   <=> (~cached.is_revoked /\ ~(fromisoformat(cached.expires_at) < now)))

\* C10 (as claimed): no cache entry with is_revoked false lies under the
\* access jti of a session row that is revoked.
C10_NoValidSnapshotOfRevoked ==
    \A jti \in DOMAIN cache :
        ~cache[jti].is_revoked
            => ~\E i \in DOMAIN sessions :
                   sessions[i].token_jti = jti /\ sessions[i].is_revoked

(***************************************************************************)
(* Properties of login, refresh and the session rows (Spec)                *)
(***************************************************************************)
\* create_session's db.commit() has added a row
CreateSessionStep == Len(sessions') = Len(sessions) + 1

\* C11 (as claimed): whatever the state of the cache, cache_session returns
\* without raising and the login that committed a session row succeeds with
\* the tokens of that row.
C11_CacheFailureNeverFailsLogin ==
    [][ CreateSessionStep
          => LET row == sessions'[Len(sessions')]
             IN  /\ cache_session(cache, redis_client, redis_up, row,
                                  orm_user(users', roles, user_roles, row.user_id),
                                  now).result \in {"True", "False"}
                 /\ resp'.op = "login"
                 /\ resp'.status = 200
                 /\ resp'.access.jti = row.token_jti
                 /\ resp'.refresh.jti = row.refresh_token_jti
      ]_vars

\* C12 (as claimed): a refresh that commits replaces both jtis of its row,
\* moves the expiry forward and adds no row, and in every state the number
\* of session rows is the number of successful logins.
C12_OneRowPerLogin ==
    [][ /\ \A r \in Requests :
              RefreshCommitStep(r)
                  => LET sid == inflight[r].sid
                     IN  /\ Len(sessions') = Len(sessions)
                         /\ \A i \in DOMAIN sessions : i # sid => sessions'[i] = sessions[i]
                         /\ sessions'[sid].id = sessions[sid].id
                         /\ sessions'[sid].token_jti # sessions[sid].token_jti
                         /\ sessions'[sid].refresh_token_jti # sessions[sid].refresh_token_jti
                         /\ sessions'[sid].expires_at >= sessions[sid].expires_at
        /\ Len(sessions') = successful_logins'
      ]_vars

\* C14: get_current_user and get_current_session answer 401 to every token
\* whose type is not 'access' and refresh answers 401 to every token whose
\* type is not 'refresh', also when the token's jti is the access jti
\* (respectively the refresh jti) of a session row.
C14_NoCrossUse ==
    \A token \in TokenInputs :
        /\ token.type # "access"
              => /\ get_current_user(token, sessions, users, cache, redis_up, now).status = 401
                 /\ get_current_session(token, sessions, now).status = 401
                 /\ \A i \in DOMAIN sessions :
                       LET sess == [sessions EXCEPT ![i].token_jti = token.jti]
                       IN  /\ get_current_user(token, sess, users, cache, redis_up,
                                               now).status = 401
                           /\ get_current_session(token, sess, now).status = 401
        /\ token.type # "refresh"
              => /\ refresh_validate(token, sessions, users, now).status = 401
                 /\ \A i \in DOMAIN sessions :
                       refresh_validate(token,
                                        [sessions EXCEPT ![i].refresh_token_jti = token.jti],
                                        users, now).status = 401

\* C14 witness: the unexpired refresh token of a valid session was presented
\* as a bearer token and refused, and the session's access token would be
\* refused by refresh
C14_Witness ==
    /\ resp.op = "get_current_user"
    /\ resp.status = 401
    /\ resp.token \in issued
    /\ resp.token.type = "refresh"
    /\ jwt_decode_ok(resp.token, now)
    /\ \E i \in DOMAIN sessions, access \in issued :
          /\ sessions[i].refresh_token_jti = resp.token.jti
          /\ is_valid(sessions[i], now)
          /\ access.type = "access"
          /\ access.jti = sessions[i].token_jti
          /\ jwt_decode_ok(access, now)
          /\ refresh_validate(access, sessions, users, now).status = 401

\* no row carries the refresh jti, or the row that does is revoked or past
\* its stored expiry
NoRefreshableSession(sess, jti, t) ==
    \A i \in by_refresh_token_jti(sess, jti) : sess[i].is_revoked \/ sess[i].expires_at < t

\* C15: when no session row carries the presented refresh jti, or that row is
\* revoked, or its stored expiry has passed, refresh answers 401, returns no
\* tokens and changes no session row.
C15_RefreshRejectsDeadSession ==
    [][ /\ \A token \in TokenInputs :
              NoRefreshableSession(sessions, token.jti, now)
                  => refresh_validate(token, sessions, users, now).status = 401
        /\ (/\ resp' # resp
            /\ resp'.op = "refresh"
            /\ NoRefreshableSession(sessions, resp'.token.jti, now))
           => /\ resp'.status = 401
              /\ resp'.access = NoToken /\ resp'.refresh = NoToken
              /\ sessions' = sessions
              /\ issued' = issued
              /\ inflight' = inflight
      ]_vars

\* C15 witness: an unexpired refresh token of a session that is not revoked
\* was refused because the session's stored expiry had passed
C15_Witness ==
    /\ resp.op = "refresh"
    /\ resp.status = 401
    /\ resp.token \in issued
    /\ resp.token.type = "refresh"
    /\ jwt_decode_ok(resp.token, now)
    /\ \E i \in DOMAIN sessions :
          /\ sessions[i].refresh_token_jti = resp.token.jti
          /\ ~sessions[i].is_revoked
          /\ sessions[i].expires_at < now

\* the refresh tokens refresh could decode now that belong to a session row
\* i which is not revoked and whose user is active
LiveRefreshToken(token, i) ==
    /\ token.type = "refresh"
    /\ jwt_decode_ok(token, now)
    /\ sessions[i].refresh_token_jti = token.jti
    /\ ~sessions[i].is_revoked
    /\ token.sub \in DOMAIN users
    /\ users[token.sub].is_active

C17_UniformRejection ==
    \A a \in TokenInputs, b \in TokenInputs :
        LET SameRejection(v, w) ==
                (v.status # 200 /\ w.status # 200)
                    => (v.status = 401 /\ w.status = 401 /\ v.detail = w.detail)
        IN  /\ SameRejection(get_current_user(a, sessions, users, cache, redis_up, now),
                             get_current_user(b, sessions, users, cache, redis_up, now))
            /\ SameRejection(get_current_session(a, sessions, now),
                             get_current_session(b, sessions, now))
            /\ SameRejection(refresh_validate(a, sessions, users, now),
                             refresh_validate(b, sessions, users, now))

(***************************************************************************)
(* Properties of the session table (SpecStore)                             *)
(***************************************************************************)
CreateSessionCall == resp'.op = "create_session" /\ (resp' # resp \/ sessions' # sessions)

\* C13: no two session rows share an access jti and no two share a refresh
\* jti, and a create_session whose access jti or refresh jti is already in
\* the table fails and adds no row.
C13_JtiUnique ==
    [][ /\ \A i, j \in DOMAIN sessions' :
              i # j => /\ sessions'[i].token_jti # sessions'[j].token_jti
                       /\ sessions'[i].refresh_token_jti # sessions'[j].refresh_token_jti
        /\ (/\ CreateSessionCall
            /\ \/ by_token_jti(sessions, resp'.access.jti) # {}
               \/ by_refresh_token_jti(sessions, resp'.refresh.jti) # {})
           => /\ resp'.detail = "IntegrityError"
              /\ sessions' = sessions
      ]_vars

\* C13 witness: a create_session with the refresh jti of an existing row and a
\* new access jti has failed
C13_Witness ==
    /\ resp.op = "create_session"
    /\ resp.detail = "IntegrityError"
    /\ by_refresh_token_jti(sessions, resp.refresh.jti) # {}
    /\ by_token_jti(sessions, resp.access.jti) = {}
    /\ Len(sessions) = 1

(***************************************************************************)
(* Properties of the password reset (SpecReset)                            *)
(***************************************************************************)
RequestPasswordResetStep ==
    resp'.op = "request_password_reset" /\ (resp' # resp \/ reset_log' # reset_log)

\* the reset token and reset expiry the user row carries are these
StoredReset(row, token, expires_at) ==
    /\ "password_reset_token" \in DOMAIN row
    /\ "password_reset_expires" \in DOMAIN row
    /\ row.password_reset_token = token
    /\ row.password_reset_expires = expires_at

\* C18 (as claimed): request_password_reset returns success for every email;
\* with no user of that email no user row changes; with a user of that email
\* that user's row carries the new reset token and the expiry now + 1 hour,
\* and nothing else in any user row has changed.
C18_RequestResetFrame ==
    [][ RequestPasswordResetStep
          => LET found == get_user_by_email(users, resp'.ident)
             IN  /\ resp'.status = 200
                 /\ found = {} => users' = users
                 /\ \A u \in found :
                       /\ \A v \in UserIds \ {u} : users'[v] = users[v]
                       /\ \A c \in DOMAIN users[u] \ {"password_reset_token",
                                                      "password_reset_expires"} :
                             users'[u][c] = users[u][c]
                       /\ StoredReset(users'[u], reset_log'[Len(reset_log')].token,
                                      now + RESET_TOKEN_EXPIRE)
      ]_vars

\* C19 (as claimed): confirm_password_reset with a token that a confirm has
\* succeeded with, that a later request of the same user has replaced, or
\* whose expiry has passed, fails with 400 and changes no password.
C19_ResetTokenSingleUse ==
    \A i \in DOMAIN reset_log, new_password \in NewPasswords :
        LET T == reset_log[i]
            r == confirm_password_reset(users, T.token, new_password, now)
        IN  (\/ T.confirmed
             \/ \E j \in DOMAIN reset_log : j > i /\ reset_log[j].user = T.user
             \/ T.expires_at < now)
            => /\ r.status = 400
               /\ \A u \in UserIds : r.users[u].password_hash = users[u].password_hash

(***************************************************************************)
(* Properties of the role checks (SpecRbac)                                *)
(***************************************************************************)
\* C20: require_role(allowed_roles) lets the user through exactly when a role
\* attached to the user is active and has its name in allowed_roles, and
\* raises 403 otherwise; attached roles that are inactive do not count.
C20_RequireRole ==
    \A u \in UserIds, allowed_roles \in AllowedRolesInputs :
        LET v == require_role(allowed_roles, user_roles_of(roles, user_roles, u))
            allowed == {allowed_roles[i] : i \in DOMAIN allowed_roles}
        IN  /\ v.status = 200
                  <=> \E name \in user_roles[u] : roles[name].is_active /\ name \in allowed
            /\ v.status \in {200, 403}
            /\ (\A name \in user_roles[u] \cap allowed : ~roles[name].is_active)
                  => v.status = 403

\* C20 witness: a user whose only allowed role is attached but inactive, and
\* who holds another active role, has been refused
C20_Witness ==
    /\ resp.op = "require_role"
    /\ resp.status = 403
    /\ "Admin" \in user_roles[resp.user]
    /\ ~roles["Admin"].is_active
    /\ "User" \in user_roles[resp.user]
    /\ roles["User"].is_active
    /\ require_role(<<"Admin">>, user_roles_of(roles, user_roles, resp.user)).status = 403
    /\ require_role(<<"User">>, user_roles_of(roles, user_roles, resp.user)).status = 200

\* the permissions a role's text gives: the items of a JSON array, else none
PermissionsOf(role) ==
    IF role.permissions.json = "list"
    THEN {role.permissions.items[i] : i \in DOMAIN role.permissions.items}
    ELSE {}

RepeatedLogoutStep ==
    /\ resp' # resp
    /\ resp'.op = "logout"
    /\ jwt_decode_ok(resp'.token, now)
    /\ resp'.token.type = "access"
    /\ \E i \in DOMAIN sessions :
          sessions[i].token_jti = resp'.token.jti /\ sessions[i].is_revoked

\* C23 (as claimed): revoking an already-revoked session keeps its flag and
\* its revocation timestamp, and a logout repeated for a session that is
\* already revoked succeeds and changes nothing.
C23_RevocationIdempotent ==
    [][ /\ \A i \in DOMAIN sessions :
              sessions[i].is_revoked => revoke(sessions[i], now) = sessions[i]
        /\ RepeatedLogoutStep => resp'.status = 200 /\ sessions' = sessions ]_vars

(***************************************************************************)
(* Properties of the cache operations (SpecCache)                          *)
(***************************************************************************)
\* cache_session has returned True for the session row i: called on its own,
\* or from create_session during a login
CacheSessionStored(i) ==
    /\ redis_up
    /\ \/ /\ resp'.op = "cache_session"
          /\ resp'.detail = "True"
          /\ i \in DOMAIN sessions
          /\ resp'.token.jti = sessions[i].token_jti
          /\ now' = now
          /\ resp' # resp \/ cache' # cache
       \/ /\ resp'.op = "login"
          /\ resp'.status = 200
          /\ Len(sessions') = Len(sessions) + 1
          /\ i = Len(sessions')

\* invalidate_session(token_jti) has been called
InvalidateSessionStep(token_jti) ==
    /\ resp'.op = "invalidate_session"
    /\ resp'.token.jti = token_jti
    /\ now' = now
    /\ resp' # resp \/ cache' # cache

\* C24: with the cache reachable, get_cached_session(jti) right after
\* cache_session(session, user) returned True gives a snapshot with the
\* session's user_id, revocation flag and expiry and the user's email and
\* active role names as they were at that call, for a revoked session too;
\* and the stored snapshot stays as it is until the entry is invalidated or
\* cached again.
C24_CacheRoundTrip ==
    [][ /\ \A i \in DOMAIN sessions' :
              CacheSessionStored(i)
              => LET session == sessions'[i]
                     user == orm_user(users', roles, user_roles, session.user_id)
                     snapshot == get_cached_session(cache', redis_up', session.token_jti)
                 IN  /\ snapshot # NoSnapshot
                     /\ snapshot.user_id = session.user_id
                     /\ snapshot.email = user.email
                     /\ snapshot.roles = {role.name : role \in {x \in user.roles : x.is_active}}
                     /\ snapshot.is_revoked = session.is_revoked
                     /\ fromisoformat(snapshot.expires_at) = session.expires_at
        /\ \A token_jti \in DOMAIN cache :
              \/ InvalidateSessionStep(token_jti)
              \/ \E i \in DOMAIN sessions' :
                    sessions'[i].token_jti = token_jti /\ CacheSessionStored(i)
              \/ /\ token_jti \in DOMAIN cache'
                 /\ redis_up' => get_cached_session(cache', redis_up', token_jti)
                                    = cache[token_jti] ]_vars

\* C24 witness: cache_session has just stored a session that is revoked, for
\* a user whose only role is inactive, and the lookup returns that snapshot
C24_Witness ==
    /\ resp.op = "cache_session"
    /\ resp.detail = "True"
    /\ redis_up
    /\ \E i \in DOMAIN sessions :
          /\ sessions[i].token_jti = resp.token.jti
          /\ sessions[i].is_revoked
          /\ get_cached_session(cache, redis_up, resp.token.jti).is_revoked
          /\ get_cached_session(cache, redis_up, resp.token.jti).roles = {}
          /\ user_roles[sessions[i].user_id] # {}

\* C25: with the cache reachable invalidate_session(jti) returns True whether
\* or not the key was there, get_cached_session(jti) then returns None, a
\* second call gives the same result and changes nothing, and the entries
\* under other jtis are as before; a key that is absent stays absent, and is
\* looked up as None, until cache_session stores it again.
C25_InvalidateSession ==
    [][ /\ \A token_jti \in 1..MaxJti :
              InvalidateSessionStep(token_jti)
              => LET first == invalidate_session(cache, redis_client, redis_up, token_jti)
                     again == invalidate_session(cache', redis_client', redis_up', token_jti)
                 IN  /\ cache' = first.cache
                     /\ redis_up => /\ first.result
                                    /\ resp'.detail = "True"
                                    /\ get_cached_session(cache', redis_up', token_jti) = NoSnapshot
                     /\ again.result = first.result
                     /\ again.cache = cache'
                     /\ \A other \in (DOMAIN cache) \ {token_jti} :
                           other \in DOMAIN cache' /\ cache'[other] = cache[other]
        /\ \A token_jti \in (1..MaxJti) \ DOMAIN cache :
              /\ get_cached_session(cache, redis_up, token_jti) = NoSnapshot
              /\ token_jti \in DOMAIN cache'
                 => \E i \in DOMAIN sessions' :
                       sessions'[i].token_jti = token_jti /\ CacheSessionStored(i) ]_vars

\* C25 witness: the entry of the first session has been invalidated while the
\* entry of the second session is still cached
C25_Witness ==
    /\ resp.op = "invalidate_session"
    /\ resp.detail = "True"
    /\ redis_up
    /\ Len(sessions) = 2
    /\ resp.token.jti = sessions[1].token_jti
    /\ sessions[1].token_jti \notin DOMAIN cache
    /\ sessions[2].token_jti \in DOMAIN cache
    /\ get_cached_session(cache, redis_up, sessions[1].token_jti) = NoSnapshot
    /\ get_cached_session(cache, redis_up, sessions[2].token_jti) # NoSnapshot

(***************************************************************************)
(* Properties of the ordering of cache and store writes (Spec)             *)
(***************************************************************************)
\* logout's db.commit() of the revoked row, in handler r
LogoutCommitStep(r) == inflight[r].op = "logout" /\ inflight'[r].op = "idle"

\* C26 (as claimed): when logout commits the revocation the cache entry under
\* the session's access jti has already been removed, and from then on the
\* cache holds no entry under the access jti of a revoked session.
C26_InvalidateBeforeRevoke ==
    [][ /\ \A r \in Requests :
              LogoutCommitStep(r)
              => sessions[inflight[r].sid].token_jti \notin DOMAIN cache
        /\ \A i \in DOMAIN sessions' :
              sessions'[i].is_revoked => sessions'[i].token_jti \notin DOMAIN cache' ]_vars

\* C27 (as claimed): a cache entry is written only under the access jti of a
\* committed row; with the cache reachable create_session's commit is
\* followed by the entry of the new row, and refresh's commit of the rotated
\* jtis is followed by the entry under the new access jti.
C27_CacheAfterCommit ==
    [][ /\ \A token_jti \in (DOMAIN cache') \ DOMAIN cache :
              \E i \in DOMAIN sessions' : sessions'[i].token_jti = token_jti
        /\ (CreateSessionStep /\ redis_up)
              => sessions'[Len(sessions')].token_jti \in DOMAIN cache'
        /\ \A r \in Requests :
              (RefreshCommitStep(r) /\ redis_up)
              => sessions'[inflight[r].sid].token_jti \in DOMAIN cache' ]_vars

(***************************************************************************)
(* Properties of the lifetime of cache entries (SpecTtl)                   *)
(***************************************************************************)
\* C28 (as claimed): cache_session stores the entry with a time to live of
\* the smaller of SESSION_CACHE_TTL and the time left until
\* session.expires_at, and no entry lasts beyond the expiry of its session.
C28_TtlBoundedByExpiry ==
    [][ /\ \A i \in DOMAIN sessions' :
              CacheSessionStored(i)
              => LET session == sessions'[i]
                     remaining == session.expires_at - now
                 IN  cache'[session.token_jti].ttl_until - now
                        = IF SESSION_CACHE_TTL < remaining THEN SESSION_CACHE_TTL
                          ELSE remaining
        /\ \A token_jti \in DOMAIN cache' :
              cache'[token_jti].ttl_until <= fromisoformat(cache'[token_jti].expires_at) ]_vars

(***************************************************************************)
(* Properties of the order of the checks in authenticate_user (SpecAuth)   *)
(***************************************************************************)
\* the users table with the accounts in `deactivated` made inactive
Deactivated(us, deactivated) ==
    [u \in DOMAIN us |->
        IF u \in deactivated THEN [us[u] EXCEPT !.is_active = FALSE] ELSE us[u]]

\* C29: for an account that is found, authenticate_user answers 403 (locked)
\* when the account is locked, active or not, and 403 (inactive) when it is
\* inactive and not locked, whatever password is supplied, and in both cases
\* it writes nothing: failed_login_attempts, status and last_login_at stay.
C29_LockedInactiveFrame ==
    \A ident \in Identifiers, password \in Passwords, deactivated \in SUBSET UserIds :
        LET us == Deactivated(users, deactivated)
            u == TargetOf(us, ident)
            r == authenticate_user(us, ident, password, now)
        IN  u # NoUser
            => /\ is_account_locked(us[u])
                  => /\ r.status = 403
                     /\ r.detail = AccountLockedError.detail
                     /\ r.users = us
               /\ (~is_account_locked(us[u]) /\ ~us[u].is_active)
                  => /\ r.status = 403
                     /\ r.detail = AccountInactiveError.detail
                     /\ r.users = us

\* C29 witness: a locked account has just been refused with 403 although the
\* right password was supplied, and an inactive account that is not locked
\* exists next to it
C29_Witness ==
    /\ resp.op = "authenticate_user"
    /\ resp.status = 403
    /\ resp.detail = AccountLockedError.detail
    /\ TargetOf(users, resp.ident) # NoUser
    /\ is_account_locked(users[TargetOf(users, resp.ident)])
    /\ verify_password(resp.password, users[TargetOf(users, resp.ident)].password_hash)
    /\ \E u \in UserIds : ~users[u].is_active /\ ~is_account_locked(users[u])

\* C30: in every state reached through authenticate_user and unlock_account a
\* stored counter of 5 or more comes with the stored status locked, so the
\* update that brings the counter to 5 is the one that locks; and a row whose
\* counter is 5 or more is treated as locked by is_account_locked and by
\* authenticate_user whatever status it stores.
C30_LockWithFifthFailure ==
    /\ \A u \in UserIds :
          /\ users[u].failed_login_attempts >= 5 => users[u].status = "locked"
          /\ users[u].status \in UserStatuses
    /\ \A u \in UserIds, stored \in UserStatuses, n \in {5, 5 + 1}, password \in Passwords :
          LET row == [users[u] EXCEPT !.status = stored, !.failed_login_attempts = n]
              us == [users EXCEPT ![u] = row]
              r == authenticate_user(us, row.email, password, now)
          IN  /\ is_account_locked(row)
              /\ r.status = 403
              /\ r.detail = AccountLockedError.detail
              /\ r.users = us

\* C30 witness: the fifth wrong password in a row has just been answered, and
\* the account stores a counter of 5 together with the status locked
C30_Witness ==
    /\ resp.op = "authenticate_user"
    /\ resp.status = 401
    /\ TargetOf(users, resp.ident) # NoUser
    /\ users[TargetOf(users, resp.ident)].failed_login_attempts = 5
    /\ users[TargetOf(users, resp.ident)].status = "locked"
    /\ consecutive_failures[TargetOf(users, resp.ident)] = 5

(***************************************************************************)
(* Properties of interleaved authenticate_user calls (SpecAuthRace)        *)
(***************************************************************************)
\* worker r commits the failed attempt it recorded on the row it loaded
FailedAttemptCommit(r) ==
    /\ inflight[r].op = "authenticate_user"
    /\ inflight'[r].op = "idle"
    /\ ~inflight[r].success

\* C31 (as claimed): when the stored counter has only grown since worker r
\* loaded the row, the commit of r's failed attempt leaves the counter one
\* above the stored value, up to the 5 of the lock: the increment of a
\* concurrent failed attempt is not lost.
C31_NoLostIncrement ==
    [][ \A r \in Requests :
          (/\ FailedAttemptCommit(r)
           /\ users[inflight[r].user].failed_login_attempts
                 >= inflight[r].loaded.failed_login_attempts)
          => LET stored == users[inflight[r].user].failed_login_attempts
             IN  users'[inflight[r].user].failed_login_attempts
                    = IF stored + 1 < 5 THEN stored + 1 ELSE 5 ]_vars

C33_AcceptedBeforeExpiry ==
    \A i \in DOMAIN sessions :
        LET session == sessions[i]
            valid == ~session.is_revoked /\ now < session.expires_at
        IN  /\ is_valid(session, now) <=> valid
            /\ \A token \in issued :
                  /\ (/\ token.type = "access"
                      /\ token.jti = session.token_jti
                      /\ jwt_decode_ok(token, now)
                      /\ users[token.sub].is_active)
                     => /\ get_current_user(token, sessions, users, cache, redis_up,
                                            now).status = 200 <=> valid
                        /\ get_current_session(token, sessions, now).status = 200 <=> valid
                  /\ (/\ token.type = "refresh"
                      /\ token.jti = session.refresh_token_jti
                      /\ jwt_decode_ok(token, now)
                      /\ users[token.sub].is_active)
                     => (refresh_validate(token, sessions, users, now).status = 200 <=> valid)

(***************************************************************************)
(* Properties of the roles claim (SpecLive)                                *)
(***************************************************************************)
\* C34 (as claimed): the roles claim of the access token a login or a refresh
\* returns holds exactly the names of the roles attached to the user that are
\* active when the token is issued.
C34_ClaimHoldsActiveRoles ==
    [][ (/\ resp' # resp
         /\ resp'.op \in {"login", "refresh"}
         /\ resp'.status = 200)
        => resp'.access.roles
              = {name \in user_roles[resp'.access.sub] : roles[name].is_active} ]_vars

C36_OldAccessTokenRejected ==
    [][ /\ \A r \in Requests, token \in issued :
              (/\ RefreshCommitStep(r)
               /\ token.type = "access"
               /\ token.jti = sessions[inflight[r].sid].token_jti
               /\ jwt_decode_ok(token, now'))
              => /\ get_current_user(token, sessions', users', cache', redis_up', now')
                       = Rejection("Invalid or revoked session")
                 /\ get_current_session(token, sessions', now')
                       = Rejection("Invalid or revoked session")
        /\ \A token \in issued' :
              (\/ get_current_user(token, sessions', users', cache', redis_up',
                                   now').status = 200
               \/ get_current_session(token, sessions', now').status = 200)
              => \E i \in DOMAIN sessions' : sessions'[i].token_jti = token.jti ]_vars

\* C36 witness: the access token of the login has just been refused after the
\* session was refreshed, while the access token the refresh returned is
\* accepted
C36_Witness ==
    /\ resp.op = "get_current_user"
    /\ resp.status = 401
    /\ resp.detail = "Invalid or revoked session"
    /\ resp.token \in issued
    /\ resp.token.type = "access"
    /\ jwt_decode_ok(resp.token, now)
    /\ \E token \in issued :
          /\ token.type = "access"
          /\ token.sub = resp.token.sub
          /\ token.jti > resp.token.jti
          /\ get_current_user(token, sessions, users, cache, redis_up, now).status = 200
    /\ Len(sessions) = 1

\* a token is refused by get_current_user, get_current_session and refresh
RefusedEverywhere(token, sess) ==
    /\ get_current_user(token, sess, users, cache, redis_up, now).status = 401
    /\ get_current_session(token, sess, now).status = 401
    /\ refresh_validate(token, sess, users, now).status = 401

\* C37: no step deletes a session row or clears is_revoked; and when the
\* commit of a logout or of a refresh leaves the row revoked, the token the
\* request presented, the pair the row carried before and the pair it carries
\* now, which is the one a racing refresh returned, are all refused.
C37_LogoutRefreshRace ==
    [][ /\ Len(sessions') >= Len(sessions)
        /\ \A i \in DOMAIN sessions :
              /\ sessions'[i].id = sessions[i].id
              /\ sessions[i].is_revoked => sessions'[i].is_revoked
        /\ \A r \in Requests :
              (/\ RefreshCommitStep(r) \/ LogoutCommitStep(r)
               /\ sessions'[inflight[r].sid].is_revoked)
              => \A token \in issued' \cup {inflight[r].token} :
                    token.jti \in {inflight[r].token.jti,
                                   sessions[inflight[r].sid].token_jti,
                                   sessions[inflight[r].sid].refresh_token_jti,
                                   sessions'[inflight[r].sid].token_jti,
                                   sessions'[inflight[r].sid].refresh_token_jti}
                    => RefusedEverywhere(token, sessions') ]_vars

\* C37 witness: a refresh that raced with a logout has returned its pair after
\* the logout committed; the row is revoked, carries the jtis of that pair,
\* and the pair is refused
C37_Witness ==
    /\ resp.op = "refresh"
    /\ resp.status = 200
    /\ \A r \in Requests : inflight[r].op = "idle"
    /\ \E i \in DOMAIN sessions :
          /\ sessions[i].is_revoked
          /\ sessions[i].token_jti = resp.access.jti
          /\ sessions[i].refresh_token_jti = resp.refresh.jti
    /\ resp.token.jti \in logged_out
    /\ RefusedEverywhere(resp.access, sessions)
    /\ RefusedEverywhere(resp.refresh, sessions)
    /\ RefusedEverywhere(resp.token, sessions)

C39_CounterAtMostFive ==
    /\ \A u \in UserIds : users[u].failed_login_attempts <= 5
    /\ \A r \in Requests :
          inflight[r].op = "authenticate_user"
          => /\ inflight[r].loaded.failed_login_attempts < 5
             /\ commit_login_attempt(users[inflight[r].user], inflight[r].loaded,
                                     inflight[r].success, now).failed_login_attempts
                   <= IF inflight[r].success
                      THEN users[inflight[r].user].failed_login_attempts
                      ELSE inflight[r].loaded.failed_login_attempts + 1

\* C39 witness: overlapping wrong-password attempts have brought the counter
\* to 5 and locked the account, after more than five failed attempts were
\* committed, and one more attempt that loaded the row before is in flight
C39_Witness ==
    /\ users["alice"].failed_login_attempts = 5
    /\ users["alice"].status = "locked"
    /\ consecutive_failures["alice"] > 5
    /\ \E r \in Requests :
          /\ inflight[r].op = "authenticate_user"
          /\ inflight[r].user = "alice"
          /\ ~inflight[r].success

(***************************************************************************)
(* Frame of confirm_password_reset (SpecResetFrame)                        *)
(***************************************************************************)
ConfirmPasswordResetStep ==
    /\ resp'.op = "confirm_password_reset"
    /\ resp' # resp \/ users' # users \/ reset_log' # reset_log

\* the requests whose token is this one and is the unexpired, unconfirmed
\* reset token its user was last given
OutstandingReset(token) ==
    {i \in DOMAIN reset_log :
        /\ reset_log[i].token = token
        /\ ~reset_log[i].confirmed
        /\ reset_log[i].expires_at >= now
        /\ \A j \in DOMAIN reset_log : j > i => reset_log[j].user # reset_log[i].user}

\* C40 (as claimed): confirm_password_reset with the outstanding reset token
\* of a user sets that user's password hash and last_password_change and
\* nothing else in the user rows besides the reset-token fields:
\* failed_login_attempts and status stay as they were, no session row
\* changes, and every access token accepted before is accepted after; a
\* confirm that fails changes nothing.
C40_ConfirmResetFrame ==
    [][ ConfirmPasswordResetStep
          => LET live == OutstandingReset(resp'.token)
             IN  /\ sessions' = sessions
                 /\ \A token \in issued :
                       get_current_user(token, sessions, users, cache, redis_up, now).status = 200
                          => get_current_user(token, sessions', users', cache', redis_up',
                                              now').status = 200
                 /\ \A i \in live :
                       LET u == reset_log[i].user
                       IN  /\ resp'.status = 200
                           /\ users'[u].password_hash = get_password_hash(resp'.password)
                           /\ users'[u].last_password_change = now
                           /\ users'[u].failed_login_attempts = users[u].failed_login_attempts
                           /\ users'[u].status = users[u].status
                           /\ \A c \in DOMAIN users[u] \ {"password_hash", "last_password_change",
                                                          "password_reset_token",
                                                          "password_reset_expires"} :
                                 users'[u][c] = users[u][c]
                           /\ \A v \in UserIds \ {u} : users'[v] = users[v]
                 /\ live = {} => resp'.status # 200 /\ users' = users
      ]_vars

====
